---- MODULE Spec2Model ----
(***************************************************************************)
(* TOPPConsensusID::main_ (src/src/topp/ConsensusID.cpp) as a state        *)
(* machine: one invocation of the tool, from reading its options to its    *)
(* return.  The input file, the options and the scorer's behaviour are the *)
(* inputs; every statement group of main_ is one action.                   *)
(*                                                                         *)
(* Not in src/ and modelled from the specification: the enforcement of the *)
(* option restrictions (TOPPBase), the grouping engine                     *)
(* (FeatureGroupingAlgorithmQT) and the scorers (ConsensusIDAlgorithm).    *)
(***************************************************************************)
EXTENDS Integers, Sequences, FiniteSets, TLC

\* ------------------------------------------------------------------ bounds

\* Largest number of identification events (PeptideIdentification) in an idXML input.
MaxEvents == 2

\* Largest number of containers (features / consensus features) in a pre-grouped input.
MaxUnits == 2

\* The identifiers of the identification runs an input may hold, in file order.
RunIds == <<"r1", "r2">>

\* A run identifier that names no run of the input.
DanglingId == "rX"

\* RT coordinates an event may carry (m/z is the single value 0).
Coordinates == 0..1

\* ------------------------------------------------------- program constants

\* registerIntOption_("considered_hits", "<number>", 10, ...)
DefaultConsideredHits == 10

\* setValidStrings_("algorithm", ...)
Algorithms == {"PEPMatrix", "PEPIons", "best", "average", "ranks"}

\* The two scorers whose precondition is that all scores are posterior error probabilities.
PEPAlgorithms == {"PEPMatrix", "PEPIons"}

\* FileTypes::Type as far as main_ tells the values apart.
InTypes == {"IDXML", "FEATUREXML", "CONSENSUSXML", "UNKNOWN"}

\* prot_ids[0].setSearchEngine("OpenMS/ConsensusID")
ToolName == "OpenMS/ConsensusID"

VARIABLES
  in_type,      \* FileHandler::getType(in)
  algorithm,    \* option "algorithm"
  rt_delta,     \* option "rt_delta"
  mz_delta,     \* option "mz_delta"
  file,         \* the content of the input file: [prot, pep, units, pep_scores]
  consensus,    \* ConsensusIDAlgorithm* consensus: [state, kind, param]
  algo_param,   \* Param algo_param: key -> value
  prot_ids,     \* vector<ProteinIdentification> (of the file or of the map)
  pep_ids,      \* idXML branch: the consensus results collected for output
  maps,         \* vector<FeatureMap> maps: per slot, the events filed (as indices into file.pep)
  id_mapping,   \* map<String, Size> id_mapping: run identifier -> slot (0-based)
  grouping,     \* ConsensusMap grouping (idXML branch)
  map,          \* FeatureMap / ConsensusMap map (pre-grouped branches)
  it,           \* the iterator of the running loop (pep_it / it), 1-based
  pc,           \* position in main_
  exit_code,    \* how the invocation ended
  out,          \* what was stored to the output file, one entry per store
  log           \* history: the calls made to the grouping engine, the scorer,
                \* setProteinIdentifications_ and store, in order

vars == << in_type, algorithm, rt_delta, mz_delta, file, consensus, algo_param,
           prot_ids, pep_ids, maps, id_mapping, grouping, map, it, pc,
           exit_code, out, log >>

\* ------------------------------------------------------------------ helpers

EmptyParam == [k \in {} |-> 0]

Abs(x) == IF x < 0 THEN -x ELSE x

Prefix(s, n) == SubSeq(s, 1, n)

\* registerDoubleOption_ + setMinFloat_(..., 0.0): the restriction on rt_delta / mz_delta.
ValidDelta(d) == d >= 0

\* setValidStrings_("algorithm", ...): the restriction on the algorithm choice.
ValidAlgorithm(a) == a \in Algorithms

\* The class main_ instantiates for an algorithm choice (the if / else-if chain).
ScorerFor(a) ==
  IF a = "PEPMatrix" THEN "ConsensusIDAlgorithmPEPMatrix"
  ELSE IF a = "PEPIons" THEN "ConsensusIDAlgorithmPEPIons"
  ELSE IF a = "best" THEN "ConsensusIDAlgorithmBest"
  ELSE IF a = "average" THEN "ConsensusIDAlgorithmAverage"
  ELSE "ConsensusIDAlgorithmRanks"

PEPScorers == {"ConsensusIDAlgorithmPEPMatrix", "ConsensusIDAlgorithmPEPIons"}

\* Param::setValue(key, value)
SetValue(p, key, value) == [k \in DOMAIN p \cup {key} |-> IF k = key THEN value ELSE p[k]]

\* A ProteinIdentification as loaded from the file.
LoadedRun(id) == [identifier |-> id, search_engine |-> "input"]

\* The record setProteinIdentifications_ creates.
ConsensusRun == [identifier |-> "", search_engine |-> ToolName]

\* Mutant: the new record is appended without the clear.
SetProteinIdentificationsNoClear(p) == Append(p, ConsensusRun)

\* setProteinIdentifications_: clear, resize(1), stamp the tool's name.
SetProteinIdentifications(p) == << ConsensusRun >>

\* The loop of lines 232-235: id_mapping[prot_ids[i].getIdentifier()] = i, the last
\* run with an identifier winning.
BuildIdMapping(p) ==
  [id \in {p[i].identifier : i \in 1..Len(p)} |->
     (CHOOSE i \in 1..Len(p) :
        /\ p[i].identifier = id
        /\ \A j \in 1..Len(p) : p[j].identifier = id => j <= i) - 1]

\* std::map::operator[] as used in maps[id_mapping[run_id]]: the map after the
\* access (an absent key is inserted with the value-initialised mapped value 0).
IdMappingAccess(m, run_id) ==
  IF run_id \in DOMAIN m THEN m
  ELSE [k \in DOMAIN m \cup {run_id} |-> IF k = run_id THEN 0 ELSE m[k]]

\* Mutant: the test with && for ||.
MissingCoordinatesBoth(e) == ~e.hasRT /\ ~e.hasMZ

\* !pep_it->hasRT() || !pep_it->hasMZ()
MissingCoordinates(e) == ~e.hasRT \/ ~e.hasMZ

\* Mutant: the feature replaces the map's content instead of being appended.
FileIntoOverwrite(m, slot, e) == [m EXCEPT ![slot + 1] = << e >>]

\* maps[slot].push_back(feature): slot is 0-based, e the index of the event.
FileInto(m, slot, e) == [m EXCEPT ![slot + 1] = Append(@, e)]

\* Mutant: the loop stops one element early.
LoopEndShort(c) == Len(c) - 1

\* The end of a loop over a container (it != c.end()).
LoopEnd(c) == Len(c)

\* Mutant: the emptiness test is missing.
KeepResultAlways(ids) == TRUE

\* if (!it->getPeptideIdentifications().empty()): the result is kept for output.
KeepResult(ids) == ids # "empty"

\* --------------------------------------------- grouping engine (from the spec)
\* FeatureGroupingAlgorithmQT::group is not in src/.  The specification describes
\* it: every event is a point; repeatedly the unassigned point whose tolerance
\* neighbourhood holds the most unassigned points of distinct other runs is
\* committed with that neighbourhood as a Group (ties: ascending RT, then m/z,
\* then position), until every point is assigned.

\* The points of the per-run maps: <<slot, position>>.
Points(m) == UNION {{<<s, k>> : k \in 1..Len(m[s])} : s \in 1..Len(m)}

EventOf(m, q) == file.pep[m[q[1]][q[2]]]

Within(m, p, q) ==
  /\ Abs(EventOf(m, p).rt - EventOf(m, q).rt) <= rt_delta
  /\ Abs(EventOf(m, p).mz - EventOf(m, q).mz) <= mz_delta

Distance(m, p, q) ==
  LET dr == EventOf(m, p).rt - EventOf(m, q).rt
      dm == EventOf(m, p).mz - EventOf(m, q).mz
  IN dr * dr + dm * dm

\* Of the unassigned points of slot s within tolerance of p, the nearest one.
Nearest(m, p, cand) ==
  CHOOSE q \in cand : \A r \in cand :
    \/ Distance(m, p, q) < Distance(m, p, r)
    \/ Distance(m, p, q) = Distance(m, p, r) /\ q[2] <= r[2]

Neighbourhood(m, p, U) ==
  {p} \cup
  {Nearest(m, p, {q \in U : q[1] = s /\ Within(m, p, q)}) :
     s \in {t \in 1..Len(m) : t # p[1] /\ \E q \in U : q[1] = t /\ Within(m, p, q)}}

\* p is a better centre than q.
Better(m, U, p, q) ==
  LET np == Cardinality(Neighbourhood(m, p, U))
      nq == Cardinality(Neighbourhood(m, q, U))
      kp == << EventOf(m, p).rt, EventOf(m, p).mz, p[1], p[2] >>
      kq == << EventOf(m, q).rt, EventOf(m, q).mz, q[1], q[2] >>
  IN \/ np > nq
     \/ np = nq /\ \E i \in 1..4 : kp[i] < kq[i] /\ \A j \in 1..(i - 1) : kp[j] = kq[j]

RECURSIVE PointSeq(_)
\* The points of a set in the order of their slots (then positions).
PointSeq(S) ==
  IF S = {} THEN << >>
  ELSE LET q == CHOOSE x \in S : \A y \in S :
                  x[1] < y[1] \/ (x[1] = y[1] /\ x[2] <= y[2])
       IN << q >> \o PointSeq(S \ {q})

RECURSIVE Commit(_, _)
\* The greedy commit loop over the unassigned points U.
Commit(m, U) ==
  IF U = {} THEN << >>
  ELSE LET p == CHOOSE x \in U : \A y \in U \ {x} : Better(m, U, x, y)
           N == Neighbourhood(m, p, U)
           ps == PointSeq(N)
       IN << [members |-> [i \in 1..Len(ps) |-> m[ps[i][1]][ps[i][2]]],
              hits |-> \E q \in N : EventOf(m, q).hits,
              ids |-> "raw"] >> \o Commit(m, U \ N)

\* linker.group(maps, grouping)
Group(m) == Commit(m, Points(m))

\* ------------------------------------------------- scorers (from the spec)
\* ConsensusIDAlgorithm::apply is not in src/.  The specification: the Group's
\* hits are replaced by the consensus hit list, which is non-empty only if the
\* Group had a hit; PEPMatrix and PEPIons require posterior error probabilities.

ApplyThrows(kind, hits) == kind \in PEPScorers /\ hits /\ ~file.pep_scores

ApplyResult(hits) == IF hits THEN "consensus" ELSE "empty"

\* The value the scorer holds for a parameter: <<v>> when set, <<>> when not.
Parameter(p, key) == IF key \in DOMAIN p THEN << p[key] >> ELSE << >>

\* ------------------------------------------------------------------ inputs

SeqsUpTo(S, n) == UNION {[1..k -> S] : k \in 0..n}

\* An identification event: its run, its precursor position, whether it has hits.
\* An event without RT or m/z is never read further (the invocation ends at it),
\* so one representative stands for it: rt 0 when RT is absent, and no hits.
Events(runs) ==
  {e \in [run : runs, hasRT : BOOLEAN, hasMZ : BOOLEAN, rt : Coordinates,
          mz : {0}, hits : BOOLEAN] :
     /\ ~e.hasRT => e.rt = 0
     /\ (~e.hasRT \/ ~e.hasMZ) => ~e.hits}

RunSet(n) == {RunIds[i] : i \in 1..n}

\* idXML files: n runs and up to MaxEvents events.  The format nests the events
\* in their run, so each event names one of the runs; with dangling, an event
\* may also name a run the file does not hold.
FlatFiles(dangling) ==
  UNION {{[prot |-> Prefix(RunIds, n), pep |-> ps, units |-> << >>] :
            ps \in SeqsUpTo(Events(RunSet(n) \cup
                                   (IF dangling THEN {DanglingId} ELSE {})), MaxEvents)} :
         n \in 0..Len(RunIds)}

\* featureXML / consensusXML files: n runs and up to MaxUnits containers, each
\* with or without hits among its attached identifications.
MapFiles ==
  {[prot |-> Prefix(RunIds, n), pep |-> << >>, units |-> us] :
     n \in 0..Len(RunIds), us \in SeqsUpTo([hits : BOOLEAN], MaxUnits)}

\* A file of a type main_ has no branch for.
OtherFiles == {[prot |-> << >>, pep |-> << >>, units |-> << >>]}

FilesOf(t, dangling) ==
  IF t = "IDXML" THEN FlatFiles(dangling)
  ELSE IF t \in {"FEATUREXML", "CONSENSUSXML"} THEN MapFiles
  ELSE OtherFiles

\* The state at the entry of main_, for the given options and files.
InitWith(deltas_rt, deltas_mz, algos, dangling) ==
  /\ in_type \in InTypes
  /\ algorithm \in algos
  /\ rt_delta \in deltas_rt
  /\ mz_delta \in deltas_mz
  /\ \E f \in FilesOf(in_type, dangling), ps \in BOOLEAN :
       file = [prot |-> f.prot, pep |-> f.pep, units |-> f.units, pep_scores |-> ps]
  /\ consensus = [state |-> "uninitialized", kind |-> "none", param |-> EmptyParam]
  /\ algo_param = EmptyParam
  /\ prot_ids = << >>
  /\ pep_ids = << >>
  /\ maps = << >>
  /\ id_mapping = EmptyParam
  /\ grouping = << >>
  /\ map = << >>
  /\ it = 1
  /\ pc = "options"
  /\ exit_code = "NONE"
  /\ out = << >>
  /\ log = << >>

\* Some hit of the input carries a score that is no posterior error probability.
NonProbabilityHits ==
  /\ ~file.pep_scores
  /\ \/ \E k \in 1..Len(file.pep) : file.pep[k].hits
     \/ \E k \in 1..Len(file.units) : file.units[k].hits

\* The configuration satisfies the restrictions and the scorer's precondition.
ValidConfiguration ==
  /\ ValidDelta(rt_delta)
  /\ ValidDelta(mz_delta)
  /\ ValidAlgorithm(algorithm)
  /\ algorithm \in PEPAlgorithms => ~NonProbabilityHits

\* Well-formed input and a valid configuration.
Init == InitWith(0..1, {0}, Algorithms, FALSE) /\ ValidConfiguration

\* Any configuration, valid or not.
InitCfg == InitWith((-1)..1, (-1)..0, Algorithms \cup {"unknown"}, FALSE)

\* A valid configuration; events may name runs the file does not hold.
InitDangling == InitWith(0..1, {0}, Algorithms, TRUE) /\ ValidConfiguration

\* ----------------------------------------------------------------- actions

\* An exception leaves main_ (TOPPBase reports it): nothing after it runs.
Throw(code) == pc' = "done" /\ exit_code' = code

\* Lines 180-184: the options are read; a delta below its minimum is refused.
GetOptions ==
  /\ pc = "options"
  /\ IF ValidDelta(rt_delta) /\ ValidDelta(mz_delta)
     THEN pc' = "select" /\ UNCHANGED exit_code
     ELSE Throw("ILLEGAL_PARAMETERS")
  /\ UNCHANGED << in_type, algorithm, rt_delta, mz_delta, file, consensus, algo_param,
                  prot_ids, pep_ids, maps, id_mapping, grouping, map, it, out, log >>

\* Lines 189-214: the scorer is allocated for the algorithm choice (a choice
\* outside the valid strings is refused when the option is read).  The
\* sub-parameters copied for PEPMatrix and PEPIons play no part here.
SelectScorer ==
  /\ pc = "select"
  /\ IF ValidAlgorithm(algorithm)
     THEN /\ consensus' = [state |-> "allocated", kind |-> ScorerFor(algorithm),
                           param |-> EmptyParam]
          /\ algo_param' = SetValue(algo_param, "considered_hits", DefaultConsideredHits)
          /\ pc' = "idxml"
          /\ UNCHANGED exit_code
     ELSE /\ Throw("ILLEGAL_PARAMETERS")
          /\ UNCHANGED << consensus, algo_param >>
  /\ UNCHANGED << in_type, algorithm, rt_delta, mz_delta, file,
                  prot_ids, pep_ids, maps, id_mapping, grouping, map, it, out, log >>

\* The type a branch of main_ is for, and the position after the branch.
BranchType(p) ==
  IF p = "idxml" THEN "IDXML" ELSE IF p = "featurexml" THEN "FEATUREXML" ELSE "CONSENSUSXML"

AfterBranch(p) ==
  IF p = "idxml" THEN "featurexml" ELSE IF p = "featurexml" THEN "consensusxml" ELSE "delete"

\* Lines 219, 299, 324: a branch whose type is not the input's is passed over.
SkipBranch ==
  /\ pc \in {"idxml", "featurexml", "consensusxml"}
  /\ in_type # BranchType(pc)
  /\ pc' = AfterBranch(pc)
  /\ UNCHANGED << in_type, algorithm, rt_delta, mz_delta, file, consensus, algo_param,
                  prot_ids, pep_ids, maps, id_mapping, grouping, map, it,
                  exit_code, out, log >>

\* Lines 221-230: the idXML file is loaded; one feature map per run.
LoadIdXML ==
  /\ pc = "idxml"
  /\ in_type = "IDXML"
  /\ prot_ids' = [i \in 1..Len(file.prot) |-> LoadedRun(file.prot[i])]
  /\ pep_ids' = file.pep
  /\ maps' = [i \in 1..Len(file.prot) |-> << >>]
  /\ pc' = "index"
  /\ UNCHANGED << in_type, algorithm, rt_delta, mz_delta, file, consensus, algo_param,
                  id_mapping, grouping, map, it, exit_code, out, log >>

\* Lines 231-235: the Run Index is built.
BuildIndex ==
  /\ pc = "index"
  /\ id_mapping' = BuildIdMapping(prot_ids)
  /\ it' = 1
  /\ pc' = "file"
  /\ UNCHANGED << in_type, algorithm, rt_delta, mz_delta, file, consensus, algo_param,
                  prot_ids, pep_ids, maps, grouping, map, exit_code, out, log >>

\* Lines 237-252, one iteration: an event without RT or m/z ends the invocation;
\* otherwise it is filed under maps[id_mapping[run_id]].  With no run in the file
\* the access maps[0] is out of bounds: the behaviour is undefined, and the
\* process either dies or goes on with the event written outside maps.
FileEvent ==
  /\ pc = "file"
  /\ it <= LoopEnd(pep_ids)
  /\ LET e == pep_ids[it]
         m == IdMappingAccess(id_mapping, e.run)
     IN IF MissingCoordinates(e)
        THEN /\ pc' = "done"
             /\ exit_code' = "INCOMPATIBLE_INPUT_DATA"
             /\ UNCHANGED << id_mapping, maps, it >>
        ELSE /\ id_mapping' = m
             /\ IF m[e.run] < Len(maps)
                THEN /\ maps' = FileInto(maps, m[e.run], it)
                     /\ it' = it + 1
                     /\ UNCHANGED << pc, exit_code >>
                ELSE \E outcome \in {"dies", "goes on"} :
                       IF outcome = "dies"
                       THEN /\ pc' = "done"
                            /\ exit_code' = "KILLED"
                            /\ UNCHANGED << maps, it >>
                       ELSE /\ it' = it + 1
                            /\ UNCHANGED << maps, pc, exit_code >>
  /\ UNCHANGED << in_type, algorithm, rt_delta, mz_delta, file, consensus, algo_param,
                  prot_ids, pep_ids, grouping, map, out, log >>

\* An entry of the call history.
Call(op, unit, runs) == [op |-> op, unit |-> unit, runs |-> runs]

\* Lines 253-270: after the last event, the grouping engine links the maps.
LinkMaps ==
  /\ pc = "file"
  /\ it > LoopEnd(pep_ids)
  /\ grouping' = Group(maps)
  /\ log' = Append(log, Call("group", 0, << >>))
  /\ pc' = "setparam_id"
  /\ UNCHANGED << in_type, algorithm, rt_delta, mz_delta, file, consensus, algo_param,
                  prot_ids, pep_ids, maps, id_mapping, map, it, exit_code, out >>

\* Lines 273-275: number_of_runs is set, the scorer configured, pep_ids cleared.
SetParametersIdXML ==
  /\ pc = "setparam_id"
  /\ algo_param' = SetValue(algo_param, "number_of_runs", Len(prot_ids))
  /\ consensus' = [consensus EXCEPT !.param = algo_param']
  /\ pep_ids' = << >>
  /\ it' = 1
  /\ pc' = "apply_id"
  /\ UNCHANGED << in_type, algorithm, rt_delta, mz_delta, file, prot_ids, maps,
                  id_mapping, grouping, map, exit_code, out, log >>

\* Lines 276-287, one iteration: the scorer is applied to a Group; a non-empty
\* result is collected for output.
ApplyIdXML ==
  /\ pc = "apply_id"
  /\ it <= LoopEnd(grouping)
  /\ IF ApplyThrows(consensus.kind, grouping[it].hits)
     THEN /\ Throw("ILLEGAL_PARAMETERS")
          /\ UNCHANGED << grouping, pep_ids, it, log >>
     ELSE /\ grouping' = [grouping EXCEPT ![it].ids = ApplyResult(grouping[it].hits)]
          /\ log' = Append(log, Call("apply", it, Parameter(consensus.param, "number_of_runs")))
          /\ pep_ids' = IF KeepResult(grouping'[it].ids)
                        THEN Append(pep_ids, [unit |-> it, ids |-> grouping'[it].ids])
                        ELSE pep_ids
          /\ it' = it + 1
          /\ UNCHANGED << pc, exit_code >>
  /\ UNCHANGED << in_type, algorithm, rt_delta, mz_delta, file, consensus, algo_param,
                  prot_ids, maps, id_mapping, map, out >>

\* Lines 290, 315, 340: after the scoring loop, the new identification run.
CreateRun ==
  /\ \/ pc = "apply_id" /\ it > LoopEnd(grouping)
     \/ pc = "apply_map" /\ it > LoopEnd(map)
  /\ prot_ids' = SetProteinIdentifications(prot_ids)
  /\ log' = Append(log, Call("run", 0, << >>))
  /\ pc' = IF pc = "apply_id" THEN "store_id" ELSE "store_map"
  /\ UNCHANGED << in_type, algorithm, rt_delta, mz_delta, file, consensus, algo_param,
                  pep_ids, maps, id_mapping, grouping, map, it, exit_code, out >>

\* Line 293: IdXMLFile().store(out, prot_ids, pep_ids).
StoreIdXML ==
  /\ pc = "store_id"
  /\ out' = Append(out, [prot |-> prot_ids, items |-> pep_ids])
  /\ log' = Append(log, Call("store", 0, << >>))
  /\ pc' = AfterBranch("idxml")
  /\ UNCHANGED << in_type, algorithm, rt_delta, mz_delta, file, consensus, algo_param,
                  prot_ids, pep_ids, maps, id_mapping, grouping, map, it, exit_code >>

\* Lines 302-303 and 327-328: the pre-grouped map is loaded.
LoadMap(t) ==
  /\ pc \in {"featurexml", "consensusxml"}
  /\ BranchType(pc) = t
  /\ in_type = t
  /\ map' = [i \in 1..Len(file.units) |->
               [unit |-> i, hits |-> file.units[i].hits, ids |-> "raw"]]
  /\ prot_ids' = [i \in 1..Len(file.prot) |-> LoadedRun(file.prot[i])]
  /\ pc' = "setparam_map"
  /\ UNCHANGED << in_type, algorithm, rt_delta, mz_delta, file, consensus, algo_param,
                  pep_ids, maps, id_mapping, grouping, it, exit_code, out, log >>

\* Lines 306-308 and 331-333: the number of runs is set under the key
\* "ranks:number_of_runs" and the scorer configured.
SetParametersMap ==
  /\ pc = "setparam_map"
  /\ algo_param' = SetValue(algo_param, "ranks:number_of_runs", Len(prot_ids))
  /\ consensus' = [consensus EXCEPT !.param = algo_param']
  /\ it' = 1
  /\ pc' = "apply_map"
  /\ UNCHANGED << in_type, algorithm, rt_delta, mz_delta, file, prot_ids, pep_ids, maps,
                  id_mapping, grouping, map, exit_code, out, log >>

\* Lines 309-312 and 334-337, one iteration: the scorer is applied to a container.
ApplyMap ==
  /\ pc = "apply_map"
  /\ it <= LoopEnd(map)
  /\ IF ApplyThrows(consensus.kind, map[it].hits)
     THEN /\ Throw("ILLEGAL_PARAMETERS")
          /\ UNCHANGED << map, it, log >>
     ELSE /\ map' = [map EXCEPT ![it].ids = ApplyResult(map[it].hits)]
          /\ log' = Append(log, Call("apply", it, Parameter(consensus.param, "number_of_runs")))
          /\ it' = it + 1
          /\ UNCHANGED << pc, exit_code >>
  /\ UNCHANGED << in_type, algorithm, rt_delta, mz_delta, file, consensus, algo_param,
                  prot_ids, pep_ids, maps, id_mapping, grouping, out >>

\* Lines 318 and 343: the map is stored with its containers.
StoreMap ==
  /\ pc = "store_map"
  /\ out' = Append(out, [prot |-> prot_ids,
                         items |-> [i \in 1..Len(map) |->
                                      [unit |-> map[i].unit, ids |-> map[i].ids]]])
  /\ log' = Append(log, Call("store", 0, << >>))
  /\ pc' = IF in_type = "FEATUREXML" THEN AfterBranch("featurexml")
           ELSE AfterBranch("consensusxml")
  /\ UNCHANGED << in_type, algorithm, rt_delta, mz_delta, file, consensus, algo_param,
                  prot_ids, pep_ids, maps, id_mapping, grouping, map, it, exit_code >>

\* Line 346: delete consensus.
DeleteConsensus ==
  /\ pc = "delete"
  /\ consensus' = [consensus EXCEPT !.state = "deleted"]
  /\ pc' = "return"
  /\ UNCHANGED << in_type, algorithm, rt_delta, mz_delta, file, algo_param,
                  prot_ids, pep_ids, maps, id_mapping, grouping, map, it,
                  exit_code, out, log >>

\* Line 348: return EXECUTION_OK.
Return ==
  /\ pc = "return"
  /\ pc' = "done"
  /\ exit_code' = "EXECUTION_OK"
  /\ UNCHANGED << in_type, algorithm, rt_delta, mz_delta, file, consensus, algo_param,
                  prot_ids, pep_ids, maps, id_mapping, grouping, map, it, out, log >>

Next ==
  \/ GetOptions
  \/ SelectScorer
  \/ SkipBranch
  \/ LoadIdXML
  \/ BuildIndex
  \/ FileEvent
  \/ LinkMaps
  \/ SetParametersIdXML
  \/ ApplyIdXML
  \/ CreateRun
  \/ StoreIdXML
  \/ LoadMap("FEATUREXML")
  \/ LoadMap("CONSENSUSXML")
  \/ SetParametersMap
  \/ ApplyMap
  \/ StoreMap
  \/ DeleteConsensus
  \/ Return

\* An invocation with well-formed input and a valid configuration.
Spec == Init /\ [][Next]_vars

\* An invocation with any configuration.
SpecCfg == InitCfg /\ [][Next]_vars

\* An invocation whose events may name runs the file does not hold.
SpecDangling == InitDangling /\ [][Next]_vars

\* ------------------------------------------------------------------ claims

Flat == in_type = "IDXML"

PreGrouped == in_type \in {"FEATUREXML", "CONSENSUSXML"}

\* The positions of the history at which an operation was called.
Calls(op) == {i \in 1..Len(log) : log[i].op = op}

\* No state short of the return is stuck.
Progresses == pc # "done" => ENABLED Next

\* C1: on the flat path, an input with an event that lacks RT or lacks m/z ends
\* with INCOMPATIBLE_INPUT_DATA; the grouping engine is never invoked, the scorer
\* never applied and nothing is stored.
C1_MissingCoordinatesAbort ==
  (Flat /\ \E k \in 1..Len(file.pep) : ~file.pep[k].hasRT \/ ~file.pep[k].hasMZ) =>
     /\ Calls("group") = {}
     /\ Calls("apply") = {}
     /\ out = << >>
     /\ pc \in {"options", "select", "idxml", "index", "file", "done"}
     /\ pc = "done" => exit_code = "INCOMPATIBLE_INPUT_DATA"
     /\ Progresses

\* C1 witness: the first event was filed, the second has RT but no m/z, and the
\* invocation has ended with INCOMPATIBLE_INPUT_DATA.
C1_Witness ==
  /\ Flat
  /\ pc = "done"
  /\ exit_code = "INCOMPATIBLE_INPUT_DATA"
  /\ it = 2
  /\ Len(file.pep) = 2
  /\ file.pep[2].hasRT /\ ~file.pep[2].hasMZ
  /\ \E s \in 1..Len(maps) : maps[s] = << 1 >>

\* The places of the Groups' members: <<group, position>>.
Memberships == UNION {{<<g, k>> : k \in 1..Len(grouping[g].members)} : g \in 1..Len(grouping)}

\* C2: on the flat path, when every event has RT and m/z, the Groups handed to
\* the scorer partition the events: each event is in exactly one Group, once.
C2_GroupsPartition ==
  /\ (Flat /\ Calls("group") # {}) =>
       /\ \A e \in 1..Len(file.pep) :
            Cardinality({q \in Memberships : grouping[q[1]].members[q[2]] = e}) = 1
       /\ \A q \in Memberships : grouping[q[1]].members[q[2]] \in 1..Len(file.pep)
       /\ \A g \in 1..Len(grouping) : grouping[g].members # << >>
  /\ (Flat /\ pc = "done" /\ \A k \in 1..Len(file.pep) : file.pep[k].hasRT /\ file.pep[k].hasMZ) =>
       Calls("group") # {}

\* C2 witness: two events of different runs with no cross-run match are handed
\* to the scorer as two singleton Groups.
C2_Witness ==
  /\ Flat
  /\ pc = "apply_id"
  /\ Len(file.pep) = 2
  /\ file.pep[1].run # file.pep[2].run
  /\ Len(grouping) = 2
  /\ \A g \in 1..2 : Len(grouping[g].members) = 1

\* The scorer was applied to the units 1, 2, ... in this order, each once.
AppliedInOrder ==
  \A i \in Calls("apply") : log[i].unit = Cardinality({j \in Calls("apply") : j <= i})

\* C3: flat input is grouped exactly once, before the first scorer invocation,
\* and the scorer is invoked once per Group; pre-grouped input is never grouped
\* and the scorer is invoked once per container.
C3_Dispatch ==
  /\ Cardinality(Calls("group")) <= 1
  /\ AppliedInOrder
  /\ Flat => \A i \in Calls("apply") : \E j \in Calls("group") : j < i
  /\ ~Flat => Calls("group") = {}
  /\ (Flat /\ exit_code = "EXECUTION_OK") =>
       /\ Cardinality(Calls("group")) = 1
       /\ Cardinality(Calls("apply")) = Len(grouping)
  /\ (PreGrouped /\ exit_code = "EXECUTION_OK") =>
       Cardinality(Calls("apply")) = Len(file.units)

\* C3 witness: a flat input was grouped into two Groups, both scored, and the
\* invocation returned.
C3_Witness ==
  /\ Flat
  /\ exit_code = "EXECUTION_OK"
  /\ Len(grouping) = 2
  /\ Cardinality(Calls("apply")) = 2

\* The result of the scorer per unit (Group or container).
Results ==
  IF Flat THEN [g \in 1..Len(grouping) |-> grouping[g].ids]
  ELSE [i \in 1..Len(map) |-> map[i].ids]

\* The stored items are the units with a non-empty result, in index order, each once.
EmptyDropped(items) ==
  /\ \A k \in 1..Len(items) : items[k].ids # "empty"
  /\ \A k \in 1..(Len(items) - 1) : items[k].unit < items[k + 1].unit
  /\ {items[k].unit : k \in 1..Len(items)} = {u \in 1..Len(Results) : Results[u] # "empty"}

\* C4 as stated: for every input shape, a unit whose scorer yields no hits is
\* dropped from the output, and the others appear in index order, each once.
C4_Original == \A n \in 1..Len(out) : EmptyDropped(out[n].items)

\* C4 amended: on the flat path a Group whose scorer yields no hits is dropped
\* and the others are stored in Group index order, each once; on the pre-grouped
\* paths every container is stored, in its original order, with or without hits.
C4_EmptyDroppedOnFlatPath ==
  \A n \in 1..Len(out) :
    IF Flat THEN EmptyDropped(out[n].items)
    ELSE /\ Len(out[n].items) = Len(file.units)
         /\ \A k \in 1..Len(out[n].items) :
              /\ out[n].items[k].unit = k
              /\ out[n].items[k].ids = (IF file.units[k].hits THEN "consensus" ELSE "empty")

\* C4 witness: of two Groups the first yielded no hits and was dropped, the
\* second was stored.
C4_Witness ==
  /\ Flat
  /\ Len(out) = 1
  /\ Len(grouping) = 2
  /\ grouping[1].ids = "empty"
  /\ Len(out[1].items) = 1
  /\ out[1].items[1].unit = 2

\* C5 as stated: at every scorer invocation, for every input shape, the scorer's
\* number_of_runs is set and equals the number of runs of the input.
C5_NumberOfRuns == \A i \in Calls("apply") : log[i].runs = << Len(file.prot) >>

\* C6: the output carries exactly one run record, naming this tool; the records
\* of the input are gone; the record is created after the last scorer
\* invocation and before the output is stored.
C6_OneRunRecord ==
  /\ \A n \in 1..Len(out) :
       /\ Len(out[n].prot) = 1
       /\ out[n].prot[1].search_engine = ToolName
       /\ \A i \in 1..Len(file.prot) : out[n].prot[1] # LoadedRun(file.prot[i])
  /\ Cardinality(Calls("run")) <= 1
  /\ \A r \in Calls("run") :
       /\ \A a \in Calls("apply") : a < r
       /\ \A s \in Calls("store") : r < s
  /\ Calls("store") # {} => Calls("run") # {}
  /\ ((Flat \/ PreGrouped) /\ exit_code = "EXECUTION_OK") => Len(out) = 1

\* C6 witness: an input of two runs was scored and stored.
C6_Witness ==
  /\ Len(out) = 1
  /\ Len(file.prot) = 2
  /\ Calls("apply") # {}
  /\ exit_code = "EXECUTION_OK"

\* C7 as stated: with an invalid configuration no grouping and no scoring ever
\* begins, an unknown algorithm never has a scorer selected, and when the
\* invalid configuration is reported nothing was grouped or scored before.
C7_InvalidConfigurationFirst ==
  /\ ~ValidConfiguration => Calls("group") = {} /\ Calls("apply") = {}
  /\ ~ValidAlgorithm(algorithm) => consensus.state = "uninitialized"
  /\ exit_code = "ILLEGAL_PARAMETERS" => Calls("group") = {} /\ Calls("apply") = {}

\* Every Group and container has been scored.
AllScored ==
  /\ \A g \in 1..Len(grouping) : grouping[g].ids # "raw"
  /\ \A i \in 1..Len(map) : map[i].ids # "raw"

\* C8 as stated: an invocation ends with INCOMPATIBLE_INPUT_DATA or with
\* EXECUTION_OK; one that ends with EXECUTION_OK has stored output exactly once,
\* and output is stored only when every Group has been scored.
C8_SuccessHasOutput ==
  /\ pc = "done" => exit_code \in {"INCOMPATIBLE_INPUT_DATA", "EXECUTION_OK"}
  /\ exit_code = "EXECUTION_OK" => Len(out) = 1
  /\ Len(out) <= 1
  /\ out # << >> => AllScored

\* C9 as stated: once built, the Run Index maps exactly the runs of the input to
\* their slots, whatever events are filed, and each event is filed under the
\* slot of the run whose identifier it carries.
C9_RunIndexFrozen ==
  (Flat /\ pc \notin {"options", "select", "idxml", "index"}) =>
     /\ DOMAIN id_mapping = {file.prot[i] : i \in 1..Len(file.prot)}
     /\ \A i \in 1..Len(file.prot) : id_mapping[file.prot[i]] = i - 1
     /\ \A s \in 1..Len(maps) : \A k \in 1..Len(maps[s]) :
          file.pep[maps[s][k]].run = file.prot[s]

\* C10 as stated: when the invocation has returned, with either outcome, the
\* scorer has been released; it is not used after its release.
C10_ScorerReleased ==
  /\ pc = "done" => consensus.state = "deleted"
  /\ consensus.state = "deleted" => pc \in {"return", "done"}

====
